---- MODULE Spec2Model ----
(***************************************************************************)
(* Artifact protocol of the chat REPL widget: the session state kept by    *)
(* ChatRepl (chat_repl.py), its submit and event handlers, the artifact    *)
(* extractor _try_parse_artifact and the artifact schema (artifact.py).    *)
(*                                                                         *)
(* Text is a sequence of symbols.  The structural characters of JSON, the  *)
(* quote characters and the blank are symbols of their own; a run of other *)
(* characters (a word, a number) is one symbol, an atom.  The backslash is *)
(* a symbol too; it escapes the symbol after it inside a JSON string.      *)
(***************************************************************************)
EXTENDS Integers, Sequences, FiniteSets, TLC

None == "None"

Q == "\""

SQ == "'"

WS == " "

BS == "\\"

(***************************************************************************)
(* JSON values, as json.loads builds them.  Every value is a record of the *)
(* same shape, so that any two values can be compared.                     *)
(***************************************************************************)
JNull == [k |-> "null", s |-> <<>>, keys |-> <<>>, items |-> <<>>]

JBool(b) == [k |-> "bool", s |-> <<b>>, keys |-> <<>>, items |-> <<>>]

JNum(a) == [k |-> "num", s |-> <<a>>, keys |-> <<>>, items |-> <<>>]

JStr(cs) == [k |-> "str", s |-> cs, keys |-> <<>>, items |-> <<>>]

JArr(vs) == [k |-> "arr", s |-> <<>>, keys |-> <<>>, items |-> vs]

JObj(ks, vs) == [k |-> "obj", s |-> <<>>, keys |-> ks, items |-> vs]

\* The value of no artifact (Python None where an Artifact is expected).
NoArtifact == [k |-> "none", s |-> <<>>, keys |-> <<>>, items |-> <<>>]

IndexOfKey(ks, key) ==
    IF \E i \in 1..Len(ks) : ks[i] = key
    THEN CHOOSE i \in 1..Len(ks) : ks[i] = key
    ELSE 0

HasKey(o, key) == IndexOfKey(o.keys, key) # 0

\* dict.get(key): the value stored under key, JNull when the key is absent.
Get(o, key) == IF HasKey(o, key) THEN o.items[IndexOfKey(o.keys, key)] ELSE JNull

\* dict[key] = v: a repeated key keeps its place and takes the later value.
ObjPut(o, key, v) ==
    IF HasKey(o, key)
    THEN JObj(o.keys, [o.items EXCEPT ![IndexOfKey(o.keys, key)] = v])
    ELSE JObj(Append(o.keys, key), Append(o.items, v))

(***************************************************************************)
(* json.loads, as a recursive descent over the symbols.                    *)
(***************************************************************************)
NumberAtoms == {"0", "1", "42"}

ParseFail == [ok |-> FALSE, v |-> JNull, p |-> 0]

ParseOk(v, p) == [ok |-> TRUE, v |-> v, p |-> p]

RECURSIVE SkipWs(_, _)
SkipWs(t, i) == IF i <= Len(t) /\ t[i] = WS THEN SkipWs(t, i + 1) ELSE i

\* The character an escape stands for, <<>> when the escape is not one of
\* JSON's: \" and \\ stand for themselves, \u0061 for the letter a.
Unescape(sym) ==
    CASE sym = Q -> <<Q>>
      [] sym = BS -> <<BS>>
      [] sym = "u0061rtifact" -> <<"artifact">>
      [] OTHER -> <<>>

\* The string that ends at the first quote not escaped at or after i.
RECURSIVE ScanString(_, _, _)
ScanString(t, i, acc) ==
    IF i > Len(t) THEN ParseFail
    ELSE IF t[i] = Q THEN ParseOk(JStr(acc), i + 1)
    ELSE IF t[i] = BS THEN
        IF i + 1 > Len(t) \/ Unescape(t[i + 1]) = <<>> THEN ParseFail
        ELSE ScanString(t, i + 2, acc \o Unescape(t[i + 1]))
    ELSE ScanString(t, i + 1, Append(acc, t[i]))

\* t[i] is the opening quote.
ParseString(t, i) == ScanString(t, i + 1, <<>>)

RECURSIVE ParseValue(_, _)
RECURSIVE ParseMembers(_, _, _)
RECURSIVE ParseElements(_, _, _)

\* After "{" or ",": a key, a colon, a value, then "," or "}".
ParseMembers(t, i, acc) ==
    LET j == SkipWs(t, i)
    IN  IF j > Len(t) \/ t[j] # Q THEN ParseFail
        ELSE LET key == ParseString(t, j)
             IN  IF ~key.ok THEN ParseFail
                 ELSE LET c == SkipWs(t, key.p)
                      IN  IF c > Len(t) \/ t[c] # ":" THEN ParseFail
                          ELSE LET val == ParseValue(t, c + 1)
                               IN  IF ~val.ok THEN ParseFail
                                   ELSE LET n == SkipWs(t, val.p)
                                            obj == ObjPut(acc, key.v.s, val.v)
                                        IN  IF n > Len(t) THEN ParseFail
                                            ELSE IF t[n] = "}" THEN ParseOk(obj, n + 1)
                                            ELSE IF t[n] = "," THEN ParseMembers(t, n + 1, obj)
                                            ELSE ParseFail

\* After "[" or ",": a value, then "," or "]".
ParseElements(t, i, acc) ==
    LET val == ParseValue(t, i)
    IN  IF ~val.ok THEN ParseFail
        ELSE LET n == SkipWs(t, val.p)
                 arr == JArr(Append(acc.items, val.v))
             IN  IF n > Len(t) THEN ParseFail
                 ELSE IF t[n] = "]" THEN ParseOk(arr, n + 1)
                 ELSE IF t[n] = "," THEN ParseElements(t, n + 1, arr)
                 ELSE ParseFail

ParseValue(t, i) ==
    LET j == SkipWs(t, i)
    IN  IF j > Len(t) THEN ParseFail
        ELSE IF t[j] = "{" THEN
            LET n == SkipWs(t, j + 1)
            IN  IF n <= Len(t) /\ t[n] = "}" THEN ParseOk(JObj(<<>>, <<>>), n + 1)
                ELSE ParseMembers(t, j + 1, JObj(<<>>, <<>>))
        ELSE IF t[j] = "[" THEN
            LET n == SkipWs(t, j + 1)
            IN  IF n <= Len(t) /\ t[n] = "]" THEN ParseOk(JArr(<<>>), n + 1)
                ELSE ParseElements(t, j + 1, JArr(<<>>))
        ELSE IF t[j] = Q THEN ParseString(t, j)
        ELSE IF t[j] \in NumberAtoms THEN ParseOk(JNum(t[j]), j + 1)
        ELSE IF t[j] = "true" THEN ParseOk(JBool("true"), j + 1)
        ELSE IF t[j] = "false" THEN ParseOk(JBool("false"), j + 1)
        ELSE IF t[j] = "null" THEN ParseOk(JNull, j + 1)
        ELSE ParseFail

\* json.loads(t): one value, with nothing but blanks after it.
JsonLoads(t) ==
    LET r == ParseValue(t, 1)
    IN  IF r.ok /\ SkipWs(t, r.p) > Len(t) THEN r ELSE ParseFail

(***************************************************************************)
(* The artifact schema (artifact.py).  A validated model is kept as the    *)
(* JSON object of its fields in declaration order, defaults filled in.     *)
(* The discriminator that Artifact.props names, __artifact_component_type__*)
(* is a field of none of the four component models, so props is validated  *)
(* as the plain union of the four, each with extra = "forbid".             *)
(***************************************************************************)
K(x) == <<x>>

S(x) == JStr(<<x>>)

ArtifactType == {"form", "markdown", "chart", "code_sandbox"}

FormFieldType == {"text", "select", "checkbox", "textarea", "number"}

\* Strings that parse as a datetime.
TimeAtoms == {"T0", "T1", "T2"}

\* What datetime.now() may return at a call.
Clock == {"T1", "T2"}

ValidFail == [ok |-> FALSE, v |-> NoArtifact]

ValidOk(v) == [ok |-> TRUE, v |-> v]

\* KeysWithin, were the models to ignore extra keys.
KeysWithin_Any(o, allowed) == TRUE

\* extra = "forbid": every key given is a declared field.
KeysWithin(o, allowed) == \A i \in 1..Len(o.keys) : o.keys[i] \in allowed

IsStr(v) == v.k = "str"

IsOptStr(v) == v.k \in {"str", "null"}

IsEnum(v, values) == v.k = "str" /\ Len(v.s) = 1 /\ v.s[1] \in values

IsStrList(v) == v.k = "arr" /\ \A i \in 1..Len(v.items) : IsStr(v.items[i])

\* The field's value, or its default when the key is absent.
GetOr(o, key, dflt) == IF HasKey(o, key) THEN Get(o, key) ELSE dflt

FormFieldKeys ==
    {K("name"), K("type"), K("label"), K("options"), K("required"),
     K("default"), K("placeholder"), K("help_text")}

FormFieldValid(f) ==
    /\ f.k = "obj"
    /\ KeysWithin(f, FormFieldKeys)
    /\ HasKey(f, K("name")) /\ IsStr(Get(f, K("name")))
    /\ HasKey(f, K("type")) /\ IsEnum(Get(f, K("type")), FormFieldType)
    /\ HasKey(f, K("label")) /\ IsStr(Get(f, K("label")))
    /\ IsStrList(GetOr(f, K("options"), JArr(<<>>)))
    /\ GetOr(f, K("required"), JBool("true")).k = "bool"
    /\ GetOr(f, K("default"), JNull).k \in {"str", "num", "bool", "null"}
    /\ IsOptStr(GetOr(f, K("placeholder"), JNull))
    /\ IsOptStr(GetOr(f, K("help_text"), JNull))

FormField(f) ==
    JObj(<<K("name"), K("type"), K("label"), K("options"), K("required"),
           K("default"), K("placeholder"), K("help_text")>>,
         <<Get(f, K("name")), Get(f, K("type")), Get(f, K("label")),
           GetOr(f, K("options"), JArr(<<>>)),
           GetOr(f, K("required"), JBool("true")),
           GetOr(f, K("default"), JNull),
           GetOr(f, K("placeholder"), JNull),
           GetOr(f, K("help_text"), JNull)>>)

FormComponentKeys ==
    {K("title"), K("description"), K("fields"), K("submit_label"), K("cancel_label")}

\* FormComponentValid, were fields declared without min_length=1.
FormComponentValid_AnyLength(p) ==
    /\ p.k = "obj"
    /\ KeysWithin(p, FormComponentKeys)
    /\ HasKey(p, K("title")) /\ IsStr(Get(p, K("title")))
    /\ IsOptStr(GetOr(p, K("description"), JNull))
    /\ HasKey(p, K("fields"))
    /\ Get(p, K("fields")).k = "arr"
    /\ \A i \in 1..Len(Get(p, K("fields")).items) :
          FormFieldValid(Get(p, K("fields")).items[i])
    /\ IsStr(GetOr(p, K("submit_label"), S("Submit")))
    /\ IsOptStr(GetOr(p, K("cancel_label"), JNull))

FormComponentValid(p) ==
    /\ p.k = "obj"
    /\ KeysWithin(p, FormComponentKeys)
    /\ HasKey(p, K("title")) /\ IsStr(Get(p, K("title")))
    /\ IsOptStr(GetOr(p, K("description"), JNull))
    /\ HasKey(p, K("fields"))
    /\ Get(p, K("fields")).k = "arr"
    /\ Len(Get(p, K("fields")).items) >= 1
    /\ \A i \in 1..Len(Get(p, K("fields")).items) :
          FormFieldValid(Get(p, K("fields")).items[i])
    /\ IsStr(GetOr(p, K("submit_label"), S("Submit")))
    /\ IsOptStr(GetOr(p, K("cancel_label"), JNull))

FormComponent(p) ==
    LET fs == Get(p, K("fields")).items
    IN  JObj(<<K("title"), K("description"), K("fields"), K("submit_label"),
               K("cancel_label")>>,
             <<Get(p, K("title")),
               GetOr(p, K("description"), JNull),
               JArr([i \in 1..Len(fs) |-> FormField(fs[i])]),
               GetOr(p, K("submit_label"), S("Submit")),
               GetOr(p, K("cancel_label"), JNull)>>)

MarkdownComponentValid(p) ==
    /\ p.k = "obj"
    /\ KeysWithin(p, {K("content")})
    /\ HasKey(p, K("content")) /\ IsStr(Get(p, K("content")))

MarkdownComponent(p) == JObj(<<K("content")>>, <<Get(p, K("content"))>>)

ChartComponentValid(p) ==
    /\ p.k = "obj"
    /\ KeysWithin(p, {K("chart_type"), K("data"), K("title")})
    /\ HasKey(p, K("chart_type")) /\ IsStr(Get(p, K("chart_type")))
    /\ HasKey(p, K("data")) /\ Get(p, K("data")).k = "obj"
    /\ IsOptStr(GetOr(p, K("title"), JNull))

ChartComponent(p) ==
    JObj(<<K("chart_type"), K("data"), K("title")>>,
         <<Get(p, K("chart_type")), Get(p, K("data")), GetOr(p, K("title"), JNull)>>)

CodeSandboxComponentValid(p) ==
    /\ p.k = "obj"
    /\ KeysWithin(p, {K("code"), K("language"), K("filename"), K("editable")})
    /\ HasKey(p, K("code")) /\ IsStr(Get(p, K("code")))
    /\ HasKey(p, K("language")) /\ IsStr(Get(p, K("language")))
    /\ IsOptStr(GetOr(p, K("filename"), JNull))
    /\ GetOr(p, K("editable"), JBool("false")).k = "bool"

CodeSandboxComponent(p) ==
    JObj(<<K("code"), K("language"), K("filename"), K("editable")>>,
         <<Get(p, K("code")), Get(p, K("language")),
           GetOr(p, K("filename"), JNull),
           GetOr(p, K("editable"), JBool("false"))>>)

\* props: FormComponent | MarkdownComponent | ChartComponent | CodeSandboxComponent
\* Nothing relates the member that validates to the component field.
PropsValid(p) ==
    \/ FormComponentValid(p)
    \/ MarkdownComponentValid(p)
    \/ ChartComponentValid(p)
    \/ CodeSandboxComponentValid(p)

Props(p) ==
    IF FormComponentValid(p) THEN FormComponent(p)
    ELSE IF MarkdownComponentValid(p) THEN MarkdownComponent(p)
    ELSE IF ChartComponentValid(p) THEN ChartComponent(p)
    ELSE CodeSandboxComponent(p)

ArtifactKeys ==
    {K("type"), K("id"), K("component"), K("props"), K("timestamp"), K("metadata")}

ArtifactValid(d) ==
    /\ d.k = "obj"
    /\ KeysWithin(d, ArtifactKeys)
    /\ GetOr(d, K("type"), S("artifact")) = S("artifact")
    /\ HasKey(d, K("id")) /\ IsStr(Get(d, K("id")))
    /\ HasKey(d, K("component")) /\ IsEnum(Get(d, K("component")), ArtifactType)
    /\ HasKey(d, K("props")) /\ PropsValid(Get(d, K("props")))
    /\ HasKey(d, K("timestamp")) => IsEnum(Get(d, K("timestamp")), TimeAtoms)
    /\ GetOr(d, K("metadata"), JObj(<<>>, <<>>)).k = "obj"

\* Artifact.model_validate(d), called at time now.
ModelValidate(d, now) ==
    IF ~ArtifactValid(d) THEN ValidFail
    ELSE ValidOk(JObj(<<K("type"), K("id"), K("component"), K("props"),
                        K("timestamp"), K("metadata")>>,
                      <<S("artifact"), Get(d, K("id")), Get(d, K("component")),
                        Props(Get(d, K("props"))),
                        GetOr(d, K("timestamp"), S(now)),
                        GetOr(d, K("metadata"), JObj(<<>>, <<>>))>>))

ArtifactResponseKeys ==
    {K("artifact_id"), K("action"), K("data"), K("timestamp")}

ArtifactResponseValid(d) ==
    /\ d.k = "obj"
    /\ KeysWithin(d, ArtifactResponseKeys)
    /\ HasKey(d, K("artifact_id")) /\ IsStr(Get(d, K("artifact_id")))
    /\ HasKey(d, K("action")) /\ IsStr(Get(d, K("action")))
    /\ GetOr(d, K("data"), JObj(<<>>, <<>>)).k = "obj"
    /\ HasKey(d, K("timestamp")) => IsEnum(Get(d, K("timestamp")), TimeAtoms)

\* ArtifactResponse(**d), called at time now.
ArtifactResponse(d, now) ==
    IF ~ArtifactResponseValid(d) THEN ValidFail
    ELSE ValidOk(JObj(<<K("artifact_id"), K("action"), K("data"), K("timestamp")>>,
                      <<Get(d, K("artifact_id")), Get(d, K("action")),
                        GetOr(d, K("data"), JObj(<<>>, <<>>)),
                        GetOr(d, K("timestamp"), S(now))>>))

(***************************************************************************)
(* The extractor, ChatRepl._try_parse_artifact.                            *)
(***************************************************************************)
\* str.lower() of an atom.
Lower(a) ==
    CASE a = "Artifact" -> "artifact"
      [] a = "ARTIFACT" -> "artifact"
      [] OTHER -> a

\* The atoms whose text contains the substring "artifact".
ArtifactWords == {"artifact", "artifacts"}

\* ContainsArtifact, were the pre-filter of line 348 missing.
ContainsArtifact_Always(t) == TRUE

\* "artifact" in text.lower()
ContainsArtifact(t) == \E i \in 1..Len(t) : Lower(t[i]) \in ArtifactWords

\* text.find(pat): the first position where pat occurs, 0 when it does not.
Find(t, pat) ==
    LET hits == {i \in 1..(Len(t) - Len(pat) + 1) : SubSeq(t, i, i + Len(pat) - 1) = pat}
    IN  IF hits = {} THEN 0 ELSE CHOOSE i \in hits : \A j \in hits : i <= j

\* The position of the brace that returns the count to zero, 0 when none does.
RECURSIVE MatchBrace(_, _, _)
MatchBrace(t, i, count) ==
    IF i > Len(t) THEN 0
    ELSE IF t[i] = "{" THEN MatchBrace(t, i + 1, count + 1)
    ELSE IF t[i] = "}" THEN
        IF count - 1 = 0 THEN i ELSE MatchBrace(t, i + 1, count - 1)
    ELSE MatchBrace(t, i + 1, count)

\* StartIdx, were the search to take the last opening, as rfind does.
StartIdx_Last(t) ==
    LET hits == {i \in 1..(Len(t) - 4) :
                    SubSeq(t, i, i + 4) = <<"{", Q, "type", Q, ":">>}
    IN  IF hits = {} THEN Find(t, <<"{", SQ, "type", SQ, ":">>)
        ELSE CHOOSE i \in hits : \A j \in hits : j <= i

\* start_idx, 0 for -1: lines 354-356.
StartIdx(t) ==
    IF Find(t, <<"{", Q, "type", Q, ":">>) # 0
    THEN Find(t, <<"{", Q, "type", Q, ":">>)
    ELSE Find(t, <<"{", SQ, "type", SQ, ":">>)

\* The candidate span text[start_idx:end_idx], <<>> when there is none.
JsonStr(t) ==
    IF StartIdx(t) = 0 \/ MatchBrace(t, StartIdx(t), 0) = 0 THEN <<>>
    ELSE SubSeq(t, StartIdx(t), MatchBrace(t, StartIdx(t), 0))

Returns(v) == [raised |-> "", v |-> v]

Raises(exc) == [raised |-> exc, v |-> NoArtifact]

\* The classes an exception is an instance of.
ExceptionBases(exc) ==
    CASE exc = "JSONDecodeError" -> {"JSONDecodeError", "ValueError", "Exception"}
      [] exc = "ValidationError" -> {"ValidationError", "ValueError", "Exception"}
      [] OTHER -> {}

\* Caught, were the clause to name json.JSONDecodeError alone.
Caught_JsonErrorsOnly(exc) == "JSONDecodeError" \in ExceptionBases(exc)

\* except (json.JSONDecodeError, ValueError, Exception): line 380.
Caught(exc) ==
    ExceptionBases(exc) \cap {"JSONDecodeError", "ValueError", "Exception"} # {}

\* return Artifact.model_validate(data): line 379.
ReturnValidated(r) == IF r.ok THEN Returns(r.v) ELSE Raises("ValidationError")

\* Lines 376-379, on what json.loads gave.
FromLoaded(data, now) ==
    IF ~data.ok THEN Raises("JSONDecodeError")
    ELSE IF Get(data.v, K("type")) # S("artifact") THEN Returns(NoArtifact)
    ELSE ReturnValidated(ModelValidate(data.v, now))

\* Lines 372-379, on the candidate span.
FromCandidate(json_str, now) ==
    IF json_str = <<>> THEN Returns(NoArtifact)
    ELSE FromLoaded(JsonLoads(json_str), now)

\* The try block, lines 351-379: what it returns or raises.  Leaving it
\* without a return, at line 378, leads to the return None of line 384.
TryBlock(t, now) == FromCandidate(JsonStr(t), now)

\* Lines 380-384: an exception the clause catches ends in return None.
Except(r) == IF r.raised # "" /\ Caught(r.raised) THEN Returns(NoArtifact) ELSE r

\* _try_parse_artifact(text) called at time now: the Artifact it returns,
\* NoArtifact for Python None, or the exception it lets escape.
TryParseOutcome(t, now) ==
    IF t = <<>> \/ ~ContainsArtifact(t) THEN Returns(NoArtifact)
    ELSE Except(TryBlock(t, now))

\* The Artifact parsed from text at time now, NoArtifact for Python None.
TryParseArtifact(t, now) == TryParseOutcome(t, now).v

(***************************************************************************)
(* Texts the agent streams and returns.                                    *)
(***************************************************************************)
Str(x) == <<Q, x, Q>>

\* "key":value
KV(key, val) == Str(key) \o <<":">> \o val

FieldJson ==
    <<"{">> \o KV("name", Str("ok")) \o <<",">> \o KV("type", Str("checkbox"))
        \o <<",">> \o KV("label", Str("OK")) \o <<"}">>

FormPropsJson ==
    <<"{">> \o KV("title", Str("Confirm")) \o <<",">>
        \o KV("fields", <<"[">> \o FieldJson \o <<"]">>) \o <<"}">>

\* {"type":"artifact","id":"f1","component":"form","props":{...}}
FormJson ==
    <<"{">> \o KV("type", Str("artifact")) \o <<",">> \o KV("id", Str("f1"))
        \o <<",">> \o KV("component", Str("form")) \o <<",">>
        \o KV("props", FormPropsJson) \o <<"}">>

\* {"type":"artifact","id":"m1","component":"markdown","props":{"content":"Report"},
\*  "timestamp":"T0"}
MarkdownJson ==
    <<"{">> \o KV("type", Str("artifact")) \o <<",">> \o KV("id", Str("m1"))
        \o <<",">> \o KV("component", Str("markdown")) \o <<",">>
        \o KV("props", <<"{">> \o KV("content", Str("Report")) \o <<"}">>)
        \o <<",">> \o KV("timestamp", Str("T0")) \o <<"}">>

PlainText == <<"Sure", WS, "deploying">>

MentionText == <<"no", WS, "artifact", WS, "here">>

FormText == <<"Please", WS, "confirm", WS>> \o FormJson \o <<WS, "thanks">>

MarkdownText == <<"Report", WS>> \o MarkdownJson

\* FormText cut inside the object: the braces never close.
TruncatedText == SubSeq(FormText, 1, Len(FormText) - 4)

\* A candidate in single quotes, found by the second search of line 354: it
\* is closed, and it is not JSON.
BadJsonText ==
    <<"an", WS, "artifact", WS, "{", SQ, "type", SQ, ":", SQ, "artifact", SQ, "}">>

\* {"type":"artifact","id":"f0","component":"form",
\*  "props":{"title":"Confirm","fields":[]}}: JSON that fails the schema.
InvalidJson ==
    <<"{">> \o KV("type", Str("artifact")) \o <<",">> \o KV("id", Str("f0"))
        \o <<",">> \o KV("component", Str("form")) \o <<",">>
        \o KV("props", <<"{">> \o KV("title", Str("Confirm")) \o <<",">>
                         \o KV("fields", <<"[", "]">>) \o <<"}">>)
        \o <<"}">>

InvalidText == <<"Empty", WS>> \o InvalidJson

\* {"type":"artifact","id":"m2","component":"markdown",
\*  "props":{"content":"fn } end"},"timestamp":"T0"}: a brace inside a string.
BraceJson ==
    <<"{">> \o KV("type", Str("artifact")) \o <<",">> \o KV("id", Str("m2"))
        \o <<",">> \o KV("component", Str("markdown")) \o <<",">>
        \o KV("props", <<"{">> \o KV("content", <<Q, "fn", WS, "}", WS, "end", Q>>)
                         \o <<"}">>)
        \o <<",">> \o KV("timestamp", Str("T0")) \o <<"}">>

BraceText == <<"prefix", WS, "text", WS>> \o BraceJson \o <<WS, "suffix", WS, "text">>

\* {"type":"artifact","id":"e1","component":"markdown",
\*  "props":{"content":"Report"},"timestamp":"T0"}: the word artifact, escaped.
EscapedJson ==
    <<"{">> \o KV("type", <<Q, BS, "u0061rtifact", Q>>) \o <<",">>
        \o KV("id", Str("e1")) \o <<",">> \o KV("component", Str("markdown"))
        \o <<",">> \o KV("props", <<"{">> \o KV("content", Str("Report")) \o <<"}">>)
        \o <<",">> \o KV("timestamp", Str("T0")) \o <<"}">>

EscapedText == <<"Report", WS>> \o EscapedJson

\* {"type":"widget","id":"w1"}: an object, and no artifact.
WidgetText ==
    <<"a", WS>> \o <<"{">> \o KV("type", Str("widget")) \o <<",">>
        \o KV("id", Str("w1")) \o <<"}">>

\* {"type":"widget","id":"w2","component":"markdown",
\*  "props":{"content":"Report"},"timestamp":"T0"}: an artifact in all but its type.
TaggedJson ==
    <<"{">> \o KV("type", Str("widget")) \o <<",">> \o KV("id", Str("w2"))
        \o <<",">> \o KV("component", Str("markdown")) \o <<",">>
        \o KV("props", <<"{">> \o KV("content", Str("Report")) \o <<"}">>)
        \o <<",">> \o KV("timestamp", Str("T0")) \o <<"}">>

TaggedText == <<"an", WS, "artifact", WS>> \o TaggedJson

\* An object that opens with a type key and is no artifact, then an artifact.
ShadowedText == WidgetText \o <<WS, "then", WS>> \o MarkdownJson

\* The state names a text; TextOf gives its symbols.  "" names the empty
\* text, and an atom names itself.
TextOf(name) ==
    CASE name = "" -> <<>>
      [] name = "plain" -> PlainText
      [] name = "mention" -> MentionText
      [] name = "form" -> FormText
      [] name = "markdown" -> MarkdownText
      [] name = "truncated" -> TruncatedText
      [] name = "badjson" -> BadJsonText
      [] name = "invalid" -> InvalidText
      [] name = "brace" -> BraceText
      [] name = "escaped" -> EscapedText
      [] name = "widget" -> WidgetText
      [] name = "tagged" -> TaggedText
      [] name = "shadowed" -> ShadowedText
      [] OTHER -> <<name>>

\* The snapshots a text-delta event may carry.
Snapshots ==
    {"plain", "mention", "form", "markdown", "truncated", "badjson", "invalid"}

\* The output dict of an execution: output_string present (has) or not.
Outputs ==
    {[has |-> FALSE, s |-> ""],
     [has |-> TRUE, s |-> "plain"],
     [has |-> TRUE, s |-> "form"],
     [has |-> TRUE, s |-> "invalid"]}

\* str(output.get("output_string", ""))
OutputString(output) == IF output.has THEN output.s ELSE ""

\* str(output.get("output_string", output))
OutputOrRepr(output) == IF output.has THEN output.s ELSE "<dict>"

\* Every text a handler may look for an artifact in.
Texts == {""} \cup Snapshots \cup {o.s : o \in Outputs}

\* _try_parse_artifact on each of them, at each time.
Parsed == [name \in Texts, now \in Clock |-> TryParseOutcome(TextOf(name), now)]

\* What the user may type into the input box.
UserInputs == {"", "  ", "deploy", " yes "}

\* str.strip()
Strip(raw) ==
    CASE raw = "  " -> ""
      [] raw = " yes " -> "yes"
      [] OTHER -> raw

\* The node ids an input request may carry; "" when it carries none.
NodeIds == {"", "n1", "n2"}

\* Python truthiness of an optional string.
Truthy(x) == x # None /\ x # ""

(***************************************************************************)
(* The runtime collaborator (framework.runtime.agent_runtime): its entry   *)
(* points and graph nodes, and the executions it has in flight.            *)
(***************************************************************************)
MaxExecs == 2

ExecIds == <<"exec_1", "exec_2", "exec_3", "exec_4">>

AbsentNode == [present |-> FALSE, input_keys |-> <<>>]

RuntimeConfigs ==
    {[entry_points |-> <<>>, node |-> AbsentNode],
     [entry_points |-> <<[id |-> "main", entry_node |-> "start"]>>,
      node |-> [present |-> TRUE, input_keys |-> <<"query", "context">>]],
     [entry_points |-> <<[id |-> "main", entry_node |-> "start"],
                         [id |-> "alt", entry_node |-> "start"]>>,
      node |-> [present |-> TRUE, input_keys |-> <<>>]],
     [entry_points |-> <<[id |-> "main", entry_node |-> "gone"]>>,
      node |-> AbsentNode]}

\* runtime.graph.get_node(entry_point.entry_node)
GetNode(cfg, entry_node) == cfg.node

(***************************************************************************)
(* The state of one ChatRepl, its runtime, and what the last step did.     *)
(***************************************************************************)
VARIABLES
    current_exec_id,     \* _current_exec_id
    streaming_snapshot,  \* _streaming_snapshot
    waiting_for_input,   \* _waiting_for_input
    input_node_id,       \* _input_node_id
    active_artifact,     \* _active_artifact
    input_disabled,      \* #chat-input .disabled
    pc,                  \* where on_input_submitted is suspended
    future,              \* the runtime call the suspended submit awaits
    rt_config,           \* entry points and graph of the runtime
    rt_running,          \* executions in flight in the runtime
    rt_count,            \* executions started so far
    last,                \* the last step: operation, arguments, state before
    calls,               \* runtime calls dispatched by the last step
    out,                 \* history lines written by the last step
    probe                \* a call of the extractor or the schema on its own

vars ==
    <<current_exec_id, streaming_snapshot, waiting_for_input, input_node_id,
      active_artifact, input_disabled, pc, future, rt_config, rt_running,
      rt_count, last, calls, out, probe>>

ctl ==
    <<current_exec_id, streaming_snapshot, waiting_for_input, input_node_id,
      active_artifact, input_disabled>>

rt == <<rt_config, rt_running, rt_count>>

\* The mode of the session, read off the fields on_input_submitted routes by.
Mode ==
    IF waiting_for_input THEN "awaiting_structured_input"
    ELSE IF current_exec_id # None THEN "executing"
    ELSE "idle"

ModeOf(st) ==
    IF st.waiting THEN "awaiting_structured_input"
    ELSE IF st.exec # None THEN "executing"
    ELSE "idle"

Pre ==
    [exec |-> current_exec_id, snapshot |-> streaming_snapshot,
     waiting |-> waiting_for_input, node |-> input_node_id,
     artifact |-> active_artifact, disabled |-> input_disabled, pc |-> pc,
     future |-> future, running |-> rt_running]

Step(op, input, node, text) ==
    [op |-> op, input |-> input, node |-> node, text |-> text, raised |-> "",
     pre |-> Pre]

Line(kind, text) == [kind |-> kind, text |-> text]

Call(fn, target, key, value) ==
    [fn |-> fn, target |-> target, key |-> key, value |-> value]

NoFuture == [st |-> "none", result |-> None]

\* No such call is being looked at.
NoProbe == [op |-> "none"]

\* The session of a ChatRepl just constructed.
InitSession ==
    /\ current_exec_id = None
    /\ streaming_snapshot = ""
    /\ waiting_for_input = FALSE
    /\ input_node_id = None
    /\ active_artifact = NoArtifact
    /\ input_disabled = FALSE
    /\ pc = "idle"
    /\ future = NoFuture
    /\ rt_config \in RuntimeConfigs
    /\ rt_running = {}
    /\ rt_count = 0
    /\ last = [op |-> "init", input |-> "", node |-> "", text |-> <<>>,
               raised |-> "",
               pre |-> [exec |-> None, snapshot |-> "", waiting |-> FALSE,
                        node |-> None, artifact |-> NoArtifact,
                        disabled |-> FALSE, pc |-> "idle", future |-> NoFuture,
                        running |-> {}]]
    /\ calls = <<>>
    /\ out = <<>>

Init == InitSession /\ probe = NoProbe

(***************************************************************************)
(* ChatRepl.on_input_submitted.  The handler runs up to its await of the   *)
(* runtime call (Submit), the agent loop runs the call (RtTrigger,         *)
(* RtInject), and the handler resumes with the call's outcome              *)
(* (SubmitReturn).  The widget handles one submission at a time; the event *)
(* handlers below are plain calls and may run while a submit is suspended. *)
(***************************************************************************)
\* SubmitEmpty, were a blank submission to re-enable the input box.
SubmitEmpty_EnablesInput(raw) ==
    /\ input_disabled' = FALSE
    /\ last' = Step("submit", "", "", <<>>)
    /\ calls' = <<>>
    /\ out' = <<>>
    /\ UNCHANGED <<current_exec_id, streaming_snapshot, waiting_for_input,
                   input_node_id, active_artifact, pc, future, rt>>
    /\ UNCHANGED probe

\* An empty or blank submission: line 135.
SubmitEmpty(raw) ==
    /\ last' = Step("submit", "", "", <<>>)
    /\ calls' = <<>>
    /\ out' = <<>>
    /\ UNCHANGED <<ctl, pc, future, rt>>
    /\ UNCHANGED probe

\* SubmitInject, were lines 146 and 152 missing.
SubmitInject_KeepsSignal(user_input) ==
    /\ input_disabled' = TRUE
    /\ pc' = "await_inject"
    /\ future' = [st |-> "pending", result |-> None]
    /\ last' = Step("submit", user_input, "", <<>>)
    /\ calls' = <<Call("inject_input", input_node_id, "", user_input)>>
    /\ out' = <<Line("you", <<user_input>>)>>
    /\ UNCHANGED <<current_exec_id, streaming_snapshot, waiting_for_input, input_node_id,
                   active_artifact, rt>>
    /\ UNCHANGED probe

\* Client-facing input, routed to the waiting node: lines 139-163, to the await.
SubmitInject(user_input) ==
    /\ input_disabled' = TRUE
    /\ waiting_for_input' = FALSE
    /\ input_node_id' = None
    /\ pc' = "await_inject"
    /\ future' = [st |-> "pending", result |-> None]
    /\ last' = Step("submit", user_input, "", <<>>)
    /\ calls' = <<Call("inject_input", input_node_id, "", user_input)>>
    /\ out' = <<Line("you", <<user_input>>)>>
    /\ UNCHANGED <<current_exec_id, streaming_snapshot, active_artifact, rt>>
    /\ UNCHANGED probe

\* SubmitBusy, were the guard to drop the stored execution id.
SubmitBusy_DropsExec(user_input) ==
    /\ current_exec_id' = None
    /\ last' = Step("submit", user_input, "", <<>>)
    /\ calls' = <<>>
    /\ out' = <<Line("busy", <<>>)>>
    /\ UNCHANGED <<streaming_snapshot, waiting_for_input, input_node_id,
                   active_artifact, input_disabled, pc, future, rt>>
    /\ UNCHANGED probe

\* The double-submit guard: lines 166-168.
SubmitBusy(user_input) ==
    /\ last' = Step("submit", user_input, "", <<>>)
    /\ calls' = <<>>
    /\ out' = <<Line("busy", <<>>)>>
    /\ UNCHANGED <<ctl, pc, future, rt>>
    /\ UNCHANGED probe

\* The input key of the entry node: lines 185-190.
InputKey(cfg) ==
    LET entry_point == cfg.entry_points[1]
        entry_node == GetNode(cfg, entry_point.entry_node)
    IN  IF entry_node.present /\ entry_node.input_keys # <<>>
        THEN entry_node.input_keys[1]
        ELSE "input"

\* The runtime call of a new execution: lines 207-212.
TriggerCall(cfg, user_input) ==
    Call("trigger", cfg.entry_points[1].id, InputKey(cfg), user_input)

\* A new execution: lines 170-215, to the await.
SubmitTrigger(user_input) ==
    /\ rt_count < MaxExecs
    /\ last' = Step("submit", user_input, "", <<>>)
    /\ IF rt_config.entry_points = <<>>
       THEN /\ calls' = <<>>
            /\ out' = <<Line("you", <<user_input>>), Line("error", <<"No entry points">>)>>
            /\ UNCHANGED <<ctl, pc, future>>
       ELSE /\ streaming_snapshot' = ""
            /\ input_disabled' = TRUE
            /\ pc' = "await_trigger"
            /\ future' = [st |-> "pending", result |-> None]
            /\ calls' = <<TriggerCall(rt_config, user_input)>>
            /\ out' = <<Line("you", <<user_input>>)>>
            /\ UNCHANGED <<current_exec_id, waiting_for_input, input_node_id,
                           active_artifact>>
    /\ UNCHANGED rt
    /\ UNCHANGED probe

\* Route, were the double-submit guard missing.
Route_NoGuard(user_input) ==
    IF user_input = "" THEN "empty"
    ELSE IF waiting_for_input /\ Truthy(input_node_id) THEN "inject"
    ELSE "trigger"

\* Route, were the double-submit guard tested before the waiting state.
Route_GuardFirst(user_input) ==
    IF user_input = "" THEN "empty"
    ELSE IF current_exec_id # None THEN "busy"
    ELSE IF waiting_for_input /\ Truthy(input_node_id) THEN "inject"
    ELSE "trigger"

\* Which branch a submission takes: lines 135, 139, 166.
Route(user_input) ==
    IF user_input = "" THEN "empty"
    ELSE IF waiting_for_input /\ Truthy(input_node_id) THEN "inject"
    ELSE IF current_exec_id # None THEN "busy"
    ELSE "trigger"

Submit(raw) ==
    /\ pc = "idle"
    /\ LET user_input == Strip(raw)
       IN  CASE Route(user_input) = "empty" -> SubmitEmpty(raw)
             [] Route(user_input) = "inject" -> SubmitInject(user_input)
             [] Route(user_input) = "busy" -> SubmitBusy(user_input)
             [] OTHER -> SubmitTrigger(user_input)

\* The agent loop runs runtime.trigger: it starts an execution and returns
\* its id, or raises.
RtTrigger ==
    /\ pc = "await_trigger"
    /\ future.st = "pending"
    /\ \E outcome \in {"done", "raised"} :
          /\ IF outcome = "done"
             THEN /\ rt_count' = rt_count + 1
                  /\ rt_running' = rt_running \cup {ExecIds[rt_count + 1]}
                  /\ future' = [st |-> "done", result |-> ExecIds[rt_count + 1]]
             ELSE /\ future' = [st |-> "raised", result |-> None]
                  /\ UNCHANGED <<rt_count, rt_running>>
          /\ last' = Step("rt_trigger", outcome, "", <<>>)
    /\ calls' = <<>>
    /\ out' = <<>>
    /\ UNCHANGED <<ctl, pc, rt_config>>
    /\ UNCHANGED probe

\* The agent loop runs runtime.inject_input: it delivers the input, or raises.
RtInject ==
    /\ pc = "await_inject"
    /\ future.st = "pending"
    /\ \E outcome \in {"done", "raised"} :
          /\ future' = [st |-> outcome, result |-> None]
          /\ last' = Step("rt_inject", outcome, "", <<>>)
    /\ calls' = <<>>
    /\ out' = <<>>
    /\ UNCHANGED <<ctl, pc, rt>>
    /\ UNCHANGED probe

\* _current_exec_id after the await of trigger: line 215, or line 219 when it raised.
ReturnedExecId(fut) == IF fut.st = "done" THEN fut.result ELSE None

\* The input box after the await of trigger: line 222 re-enables it when it raised.
TriggerReturnDisabled(fut, disabled) == IF fut.st = "raised" THEN FALSE ELSE disabled

\* The input box after the await of inject_input: lines 160-163 leave it alone.
InjectReturnDisabled(fut, disabled) == disabled

\* SubmitReturn, were the await to last until the execution has ended.
SubmitReturn_AfterExecution ==
    /\ pc # "idle"
    /\ rt_running = {}
    /\ future.st \in {"done", "raised"}
    /\ IF pc = "await_trigger"
       THEN /\ current_exec_id' = ReturnedExecId(future)
            /\ input_disabled' = TriggerReturnDisabled(future, input_disabled)
            /\ out' = IF future.st = "raised"
                      THEN <<Line("error", <<"RuntimeError">>)>>
                      ELSE <<>>
       ELSE /\ input_disabled' = InjectReturnDisabled(future, input_disabled)
            /\ out' = IF future.st = "raised"
                      THEN <<Line("error_delivering_input", <<"RuntimeError">>)>>
                      ELSE <<>>
            /\ UNCHANGED current_exec_id
    /\ pc' = "idle"
    /\ future' = NoFuture
    /\ last' = Step("submit_return", future.st, "", <<>>)
    /\ calls' = <<>>
    /\ UNCHANGED <<streaming_snapshot, waiting_for_input, input_node_id,
                   active_artifact, rt>>
    /\ UNCHANGED probe

\* on_input_submitted resumes after its await: lines 215-223 and 160-163.
SubmitReturn ==
    /\ pc # "idle"
    /\ future.st \in {"done", "raised"}
    /\ IF pc = "await_trigger"
       THEN /\ current_exec_id' = ReturnedExecId(future)
            /\ input_disabled' = TriggerReturnDisabled(future, input_disabled)
            /\ out' = IF future.st = "raised"
                      THEN <<Line("error", <<"RuntimeError">>)>>
                      ELSE <<>>
       ELSE /\ input_disabled' = InjectReturnDisabled(future, input_disabled)
            /\ out' = IF future.st = "raised"
                      THEN <<Line("error_delivering_input", <<"RuntimeError">>)>>
                      ELSE <<>>
            /\ UNCHANGED current_exec_id
    /\ pc' = "idle"
    /\ future' = NoFuture
    /\ last' = Step("submit_return", future.st, "", <<>>)
    /\ calls' = <<>>
    /\ UNCHANGED <<streaming_snapshot, waiting_for_input, input_node_id,
                   active_artifact, rt>>
    /\ UNCHANGED probe

(***************************************************************************)
(* The event handlers.  The runtime emits events only for an execution it  *)
(* has in flight; execution-completed and execution-failed end it.         *)
(***************************************************************************)
\* TextDelta, were an artifact found in the snapshot rendered at once.
TextDelta_Renders(snapshot) ==
    /\ rt_running # {}
    /\ streaming_snapshot' = snapshot
    /\ last' = Step("text_delta", "", "", <<snapshot>>)
    /\ calls' = <<>>
    /\ out' = IF Parsed[snapshot, "T1"].v # NoArtifact
              THEN <<Line("artifact", <<"preview">>)>>
              ELSE <<>>
    /\ UNCHANGED <<current_exec_id, waiting_for_input, input_node_id,
                   active_artifact, input_disabled, pc, future, rt>>
    /\ UNCHANGED probe

\* handle_text_delta
TextDelta(snapshot) ==
    /\ rt_running # {}
    /\ streaming_snapshot' = snapshot
    /\ last' = Step("text_delta", "", "", <<snapshot>>)
    /\ calls' = <<>>
    /\ out' = <<>>
    /\ UNCHANGED <<current_exec_id, waiting_for_input, input_node_id,
                   active_artifact, input_disabled, pc, future, rt>>
    /\ UNCHANGED probe

\* ToolStarted, were it to end the streamed text.
ToolStarted_ClearsText ==
    /\ rt_running # {}
    /\ streaming_snapshot' = ""
    /\ last' = Step("tool_started", "", "", <<>>)
    /\ calls' = <<>>
    /\ out' = <<Line("tool", <<"tool">>)>>
    /\ UNCHANGED <<current_exec_id, waiting_for_input, input_node_id,
                   active_artifact, input_disabled, pc, future, rt>>
    /\ UNCHANGED probe

\* handle_tool_started
ToolStarted ==
    /\ rt_running # {}
    /\ last' = Step("tool_started", "", "", <<>>)
    /\ calls' = <<>>
    /\ out' = <<Line("tool", <<"tool">>)>>
    /\ UNCHANGED <<ctl, pc, future, rt>>
    /\ UNCHANGED probe

\* handle_tool_completed
ToolCompleted(is_error) ==
    /\ rt_running # {}
    /\ last' = Step("tool_completed", "", "", <<>>)
    /\ calls' = <<>>
    /\ out' = <<Line(IF is_error THEN "tool_error" ELSE "tool_result", <<"result">>)>>
    /\ UNCHANGED <<ctl, pc, future, rt>>
    /\ UNCHANGED probe

\* RequestedNode, were a second request not to replace the stored target.
RequestedNode_KeepFirst(node_id) ==
    IF waiting_for_input /\ Truthy(input_node_id) THEN input_node_id
    ELSE IF node_id # "" THEN node_id ELSE None

\* _input_node_id after handle_input_requested: node_id or None, line 330.
RequestedNode(node_id) == IF node_id # "" THEN node_id ELSE None

\* InputRequested, were the flushed text kept as accumulated text.
InputRequested_KeepsText(node_id) ==
    /\ rt_running # {}
    /\ out' = IF streaming_snapshot # ""
              THEN <<Line("agent", <<streaming_snapshot>>)>>
              ELSE <<>>
    /\ waiting_for_input' = TRUE
    /\ input_node_id' = RequestedNode(node_id)
    /\ input_disabled' = FALSE
    /\ last' = Step("input_requested", "", node_id, <<>>)
    /\ calls' = <<>>
    /\ UNCHANGED <<current_exec_id, streaming_snapshot, active_artifact, pc, future, rt>>
    /\ UNCHANGED probe

\* handle_input_requested
InputRequested(node_id) ==
    /\ rt_running # {}
    /\ out' = IF streaming_snapshot # ""
              THEN <<Line("agent", <<streaming_snapshot>>)>>
              ELSE <<>>
    /\ streaming_snapshot' = ""
    /\ waiting_for_input' = TRUE
    /\ input_node_id' = RequestedNode(node_id)
    /\ input_disabled' = FALSE
    /\ last' = Step("input_requested", "", node_id, <<>>)
    /\ calls' = <<>>
    /\ UNCHANGED <<current_exec_id, active_artifact, pc, future, rt>>
    /\ UNCHANGED probe

IsArtifact(a) == a # NoArtifact

Component(a) == Get(a, K("component")).s[1]

IsForm(a) == IsArtifact(a) /\ Component(a) = "form"

\* The marker _render_form_artifact stores as the node to route to: line 456.
ArtifactFormNode == "artifact_form"

\* _render_form_artifact: the lines it writes.
FormLines(a) ==
    LET form == Get(a, K("props"))
        fields == Get(form, K("fields")).items
    IN  <<Line("form_title", Get(form, K("title")).s)>>
        \o (IF Get(form, K("description")).k = "str"
            /\ Get(form, K("description")).s # <<>>
            THEN <<Line("form_description", Get(form, K("description")).s)>>
            ELSE <<>>)
        \o [i \in 1..Len(fields) |-> Line("form_field", Get(fields[i], K("label")).s)]
        \o <<Line("form_prompt", <<>>)>>

\* _render_artifact: the lines it writes.
RenderLines(a) ==
    <<Line("artifact", <<Component(a)>>)>>
    \o (IF Component(a) = "form" THEN FormLines(a)
        ELSE IF Component(a) = "markdown"
        THEN <<Line("markdown", Get(Get(a, K("props")), K("content")).s)>>
        ELSE <<Line("unsupported", <<Component(a)>>)>>)

\* The session fields as _render_artifact leaves them: lines 417, 455, 456.
AfterRender(a) ==
    IF IsForm(a)
    THEN [artifact |-> a, waiting |-> TRUE, node |-> ArtifactFormNode]
    ELSE [artifact |-> active_artifact, waiting |-> waiting_for_input,
          node |-> input_node_id]

\* The text handle_execution_completed looks for an artifact in: line 271.
CompletedText(output) ==
    IF streaming_snapshot # "" THEN streaming_snapshot ELSE OutputString(output)

\* PlainLines, were the output payload written whatever was streamed.
PlainLines_Payload(output) == <<Line("agent", <<OutputOrRepr(output)>>)>>

\* The final output line when no artifact was found: lines 279-283.
PlainLines(output) ==
    IF streaming_snapshot # ""
    THEN <<Line("agent", <<streaming_snapshot>>)>>
    ELSE <<Line("agent", <<OutputOrRepr(output)>>)>>

\* CompletedWaiting, were lines 289 and 290 missing.
CompletedWaiting_Kept(rendered) == [waiting |-> rendered.waiting, node |-> rendered.node]

\* The waiting state handle_execution_completed ends with: lines 289, 290,
\* after whatever _render_artifact stored.
CompletedWaiting(rendered) == [waiting |-> FALSE, node |-> None]

\* handle_execution_completed.  An exception that escapes the extractor at
\* line 270 leaves the handler there, before it wrote or reset anything.
ExecutionCompleted(output, now) ==
    /\ \E e \in rt_running : rt_running' = rt_running \ {e}
    /\ calls' = <<>>
    /\ LET outcome == Parsed[CompletedText(output), now]
           artifact == outcome.v
           rendered == IF IsArtifact(artifact) THEN AfterRender(artifact)
                       ELSE [artifact |-> active_artifact,
                             waiting |-> waiting_for_input, node |-> input_node_id]
           step == Step("execution_completed",
                        IF output.has THEN "output_string" ELSE "", "", <<output.s>>)
       IN  IF outcome.raised # ""
           THEN /\ last' = [step EXCEPT !.raised = outcome.raised]
                /\ out' = <<>>
                /\ UNCHANGED ctl
           ELSE /\ out' = (IF IsArtifact(artifact) THEN RenderLines(artifact)
                           ELSE PlainLines(output)) \o <<Line("separator", <<>>)>>
                /\ active_artifact' = rendered.artifact
                /\ waiting_for_input' = CompletedWaiting(rendered).waiting
                /\ input_node_id' = CompletedWaiting(rendered).node
                /\ current_exec_id' = None
                /\ streaming_snapshot' = ""
                /\ input_disabled' = FALSE
                /\ last' = step
    /\ UNCHANGED <<pc, future, rt_config, rt_count>>
    /\ UNCHANGED probe

\* FailedWaiting, were line 309 missing.
FailedWaiting_KeepsTarget(st) == [waiting |-> FALSE, node |-> st.node]

\* The waiting state handle_execution_failed ends with: lines 308, 309.
FailedWaiting(st) == [waiting |-> FALSE, node |-> None]

\* ExecutionFailed, were line 307 missing.
ExecutionFailed_KeepsText ==
    /\ \E e \in rt_running : rt_running' = rt_running \ {e}
    /\ out' = <<Line("error", <<"error">>), Line("separator", <<>>)>>
    /\ current_exec_id' = None
    /\ UNCHANGED streaming_snapshot
    /\ waiting_for_input' = FailedWaiting(Pre).waiting
    /\ input_node_id' = FailedWaiting(Pre).node
    /\ input_disabled' = FALSE
    /\ last' = Step("execution_failed", "", "", <<>>)
    /\ calls' = <<>>
    /\ UNCHANGED <<active_artifact, pc, future, rt_config, rt_count>>
    /\ UNCHANGED probe

\* handle_execution_failed
ExecutionFailed ==
    /\ \E e \in rt_running : rt_running' = rt_running \ {e}
    /\ out' = <<Line("error", <<"error">>), Line("separator", <<>>)>>
    /\ current_exec_id' = None
    /\ streaming_snapshot' = ""
    /\ waiting_for_input' = FailedWaiting(Pre).waiting
    /\ input_node_id' = FailedWaiting(Pre).node
    /\ input_disabled' = FALSE
    /\ last' = Step("execution_failed", "", "", <<>>)
    /\ calls' = <<>>
    /\ UNCHANGED <<active_artifact, pc, future, rt_config, rt_count>>
    /\ UNCHANGED probe

Next ==
    \/ \E raw \in UserInputs : Submit(raw)
    \/ RtTrigger
    \/ RtInject
    \/ SubmitReturn
    \/ \E snapshot \in Snapshots : TextDelta(snapshot)
    \/ ToolStarted
    \/ \E is_error \in BOOLEAN : ToolCompleted(is_error)
    \/ \E node_id \in NodeIds : InputRequested(node_id)
    \/ \E output \in Outputs, now \in Clock : ExecutionCompleted(output, now)
    \/ ExecutionFailed

Spec == Init /\ [][Next]_vars

(***************************************************************************)
(* The extractor on its own: _try_parse_artifact called, at different      *)
(* times, on every prefix of the texts an agent may stream.  The method    *)
(* reads its argument and assigns no field of the ChatRepl.                *)
(***************************************************************************)
MaxExtracts == 2

\* The texts whose prefixes are extracted from.
ProbeTexts ==
    {"plain", "mention", "form", "markdown", "truncated", "badjson", "invalid",
     "brace", "escaped", "widget", "tagged", "shadowed"}

\* The text of the probe: the first len symbols of the text its base names.
ProbeText == SubSeq(TextOf(probe.base), 1, probe.len)

ExtractInit ==
    /\ InitSession
    /\ rt_config.entry_points = <<>>
    /\ \E base \in ProbeTexts : \E len \in 0..Len(TextOf(base)) :
          probe = [op |-> "extract", base |-> base, len |-> len, results |-> <<>>]

\* One more call of _try_parse_artifact on the text, at time now.
ExtractCall(now) ==
    /\ Len(probe.results) < MaxExtracts
    /\ probe' = [probe EXCEPT !.results =
                    Append(@, [now |-> now, outcome |-> TryParseOutcome(ProbeText, now)])]
    /\ UNCHANGED <<ctl, pc, future, rt, last, calls, out>>

ExtractNext == \E now \in Clock : ExtractCall(now)

ExtractSpec == ExtractInit /\ [][ExtractNext]_vars

(***************************************************************************)
(* The schema on its own: an Artifact is built from keyword arguments, by  *)
(* the class, by a convenience method or from JSON, is serialized with     *)
(* model_dump_json, and the serialization is parsed again, as the REPL     *)
(* parses it (json.loads, then Artifact.model_validate).                   *)
(***************************************************************************)
\* A Python tuple: a value a field of type Any takes, and JSON has no form for.
JTuple(vs) == [k |-> "tuple", s |-> <<>>, keys |-> <<>>, items |-> vs]

\* Escape, were quotes and backslashes written as they are.
Escape_Nothing(cs) == cs

\* The characters of a string as JSON writes them.
RECURSIVE Escape(_)
Escape(cs) ==
    IF cs = <<>> THEN <<>>
    ELSE (IF Head(cs) \in {Q, BS} THEN <<BS, Head(cs)>> ELSE <<Head(cs)>>)
         \o Escape(Tail(cs))

RECURSIVE ToJson(_)
RECURSIVE Elements(_, _)
RECURSIVE Members(_, _)

Elements(items, i) ==
    IF i > Len(items) THEN <<>>
    ELSE (IF i > 1 THEN <<",">> ELSE <<>>) \o ToJson(items[i]) \o Elements(items, i + 1)

Members(o, i) ==
    IF i > Len(o.keys) THEN <<>>
    ELSE (IF i > 1 THEN <<",">> ELSE <<>>)
         \o <<Q>> \o Escape(o.keys[i]) \o <<Q, ":">> \o ToJson(o.items[i])
         \o Members(o, i + 1)

\* The compact JSON text of a value; a tuple is written as an array.
ToJson(v) ==
    CASE v.k = "null" -> <<"null">>
      [] v.k \in {"bool", "num"} -> v.s
      [] v.k = "str" -> <<Q>> \o Escape(v.s) \o <<Q>>
      [] v.k \in {"arr", "tuple"} -> <<"[">> \o Elements(v.items, 1) \o <<"]">>
      [] OTHER -> <<"{">> \o Members(v, 1) \o <<"}">>

\* artifact.model_dump_json()
ModelDumpJson(a) == ToJson(a)

\* Artifact.model_validate(json.loads(t)), at time now.
ParseJson(t, now) ==
    IF JsonLoads(t).ok THEN ModelValidate(JsonLoads(t).v, now) ELSE ValidFail

\* FormComponent(**p)
NewFormComponent(p) ==
    IF FormComponentValid(p) THEN ValidOk(FormComponent(p)) ELSE ValidFail

\* Artifact.create_form(id, title, fields, description, submit_label), the
\* arguments taken from kw and its props.
CreateForm(kw, now) ==
    LET p == Get(kw, K("props"))
        form == NewFormComponent(
                    JObj(<<K("title"), K("description"), K("fields"), K("submit_label")>>,
                         <<Get(p, K("title")), GetOr(p, K("description"), JNull),
                           Get(p, K("fields")),
                           GetOr(p, K("submit_label"), S("Submit"))>>))
    IN  IF ~form.ok THEN ValidFail
        ELSE ModelValidate(JObj(<<K("id"), K("component"), K("props")>>,
                                <<Get(kw, K("id")), S("form"), form.v>>), now)

\* Artifact.create_markdown(id, content), the arguments taken from kw.
CreateMarkdown(kw, now) ==
    LET p == Get(kw, K("props"))
    IN  IF ~MarkdownComponentValid(JObj(<<K("content")>>, <<Get(p, K("content"))>>))
        THEN ValidFail
        ELSE ModelValidate(
                 JObj(<<K("id"), K("component"), K("props")>>,
                      <<Get(kw, K("id")), S("markdown"),
                        MarkdownComponent(JObj(<<K("content")>>, <<Get(p, K("content"))>>))>>),
                 now)

\* The ways a model is built.
Hows == {"Artifact", "FormComponent", "create_form", "create_markdown", "parse"}

Construct(how, kw, now) ==
    CASE how = "Artifact" -> ModelValidate(kw, now)
      [] how = "FormComponent" -> NewFormComponent(Get(kw, K("props")))
      [] how = "create_form" -> CreateForm(kw, now)
      [] how = "create_markdown" -> CreateMarkdown(kw, now)
      [] OTHER -> ParseJson(ToJson(kw), now)

\* An object of the given keys; a key whose value is NoArtifact is left out.
RECURSIVE Kw(_, _)
Kw(ks, vs) ==
    IF ks = <<>> THEN JObj(<<>>, <<>>)
    ELSE LET rest == Kw(Tail(ks), Tail(vs))
         IN  IF Head(vs) = NoArtifact THEN rest
             ELSE JObj(<<K(Head(ks))>> \o rest.keys, <<Head(vs)>> \o rest.items)

FieldKw(type, options, dflt) ==
    Kw(<<"name", "type", "label", "options", "default">>,
       <<S("env"), S(type), S("Environment"), options, dflt>>)

\* The field lists a form is given: none, one, two; a select field with
\* options, with none given, and with an empty list of them.
FieldLists ==
    {<<>>,
     <<FieldKw("select", NoArtifact, NoArtifact)>>,
     <<FieldKw("select", JArr(<<>>), NoArtifact)>>,
     <<FieldKw("text", NoArtifact, S("x"))>>,
     <<FieldKw("number", NoArtifact, JNum("1")), FieldKw("checkbox", NoArtifact, JBool("true"))>>,
     <<FieldKw("select", JArr(<<S("staging"), S("prod")>>), NoArtifact)>>}

\* The props an Artifact is given: of each component, and of none; a form
\* with the empty string as its title.
PropsInputs ==
    {Kw(<<"title", "description", "fields">>, <<S("Deploy"), d, JArr(fs)>>) :
        d \in {NoArtifact, S("now")}, fs \in FieldLists}
    \cup {Kw(<<"title", "fields">>,
              <<JStr(<<>>), JArr(<<FieldKw("text", NoArtifact, S("x"))>>)>>)}
    \cup {Kw(<<"content">>, <<JStr(c)>>) :
            c \in {<<"Report">>, <<"say", WS, Q, "hi", Q>>, <<"a", BS, "b">>, <<"fn", WS, "}">>}}
    \cup {Kw(<<"chart_type", "data">>, <<S("bar"), JObj(<<K("xs")>>, <<xs>>)>>) :
            xs \in {JArr(<<JNum("1"), JNum("42")>>), JTuple(<<JNum("1"), JNum("42")>>)}}
    \cup {Kw(<<"code", "language", "editable">>, <<S("x"), S("python"), e>>) :
            e \in {NoArtifact, JBool("true")}}
    \cup {JObj(<<>>, <<>>)}

\* The metadata an Artifact is given, NoArtifact for none.
MetadataInputs ==
    {NoArtifact,
     JObj(<<K("source")>>, <<S("agent")>>),
     JObj(<<K("tags")>>, <<JTuple(<<S("a"), S("b")>>)>>)}

\* The keyword arguments an Artifact is built from.
ArtifactInputs ==
    {Kw(<<"id", "component", "props", "timestamp", "metadata">>,
        <<S("a1"), S(c), p, ts, md>>) :
        c \in ArtifactType, p \in PropsInputs, ts \in {NoArtifact, S("T0")},
        md \in MetadataInputs}

\* A key that no model declares.
UnknownKey == K("priority")

\* Keyword arguments that carry the undeclared key at one level: on the
\* Artifact, on the form props, on a form field, on the markdown props.
UnknownKeyInputs ==
    LET field == FieldKw("text", NoArtifact, S("x"))
        form(f, extra) ==
            Kw(<<"title", "fields", "priority">>, <<S("Deploy"), JArr(<<f>>), extra>>)
        markdown(extra) == Kw(<<"content", "priority">>, <<S("Report"), extra>>)
        artifact(c, props, extra) ==
            Kw(<<"id", "component", "props", "priority">>, <<S("a1"), S(c), props, extra>>)
    IN  {artifact("form", form(field, NoArtifact), S("high")),
         artifact("form", form(field, S("high")), NoArtifact),
         artifact("form", form(ObjPut(field, UnknownKey, S("high")), NoArtifact), NoArtifact),
         artifact("markdown", markdown(NoArtifact), S("high")),
         artifact("markdown", markdown(S("high")), NoArtifact)}

\* The keyword arguments an ArtifactResponse is built from.
ResponseInputs ==
    {Kw(<<"artifact_id", "action", "data", "timestamp", "priority">>,
        <<S("a1"), S("submit"), data, ts, extra>>) :
        data \in {NoArtifact, JObj(<<K("env")>>, <<S("prod")>>)},
        ts \in {NoArtifact, S("T0")},
        extra \in {NoArtifact, S("high")}}

SchemaInit ==
    /\ InitSession
    /\ rt_config.entry_points = <<>>
    /\ \/ \E how \in Hows, kw \in ArtifactInputs \cup UnknownKeyInputs :
             /\ how \in {"FormComponent", "create_form", "create_markdown"} =>
                   /\ ~HasKey(kw, K("timestamp"))
                   /\ ~HasKey(kw, K("metadata"))
                   /\ Get(kw, K("component")) = S("form")
             /\ how \in {"create_form", "create_markdown"} => kw \in ArtifactInputs
             /\ probe = [op |-> "schema", how |-> how, input |-> kw, stage |-> "input",
                         built |-> ValidFail, dumped |-> <<>>, parsed |-> ValidFail]
       \/ \E kw \in ResponseInputs :
             probe = [op |-> "response", how |-> "ArtifactResponse", input |-> kw,
                      stage |-> "input", built |-> ValidFail, dumped |-> <<>>,
                      parsed |-> ValidFail]

\* The model is built, at time now.
Build(now) ==
    /\ probe.op = "schema"
    /\ probe.stage = "input"
    /\ probe' = [probe EXCEPT !.stage = "built",
                              !.built = Construct(probe.how, probe.input, now)]
    /\ UNCHANGED <<ctl, pc, future, rt, last, calls, out>>

\* The Artifact built is serialized.
Dump ==
    /\ probe.stage = "built"
    /\ probe.built.ok
    /\ probe.how # "FormComponent"
    /\ probe' = [probe EXCEPT !.stage = "dumped",
                              !.dumped = ModelDumpJson(probe.built.v)]
    /\ UNCHANGED <<ctl, pc, future, rt, last, calls, out>>

\* The serialization is parsed, at time now.
Parse(now) ==
    /\ probe.stage = "dumped"
    /\ probe' = [probe EXCEPT !.stage = "parsed",
                              !.parsed = ParseJson(probe.dumped, now)]
    /\ UNCHANGED <<ctl, pc, future, rt, last, calls, out>>

\* The ArtifactResponse is built, at time now.
Respond(now) ==
    /\ probe.op = "response"
    /\ probe.stage = "input"
    /\ probe' = [probe EXCEPT !.stage = "built",
                              !.built = ArtifactResponse(probe.input, now)]
    /\ UNCHANGED <<ctl, pc, future, rt, last, calls, out>>

SchemaNext ==
    \/ \E now \in Clock : Build(now)
    \/ \E now \in Clock : Respond(now)
    \/ Dump
    \/ \E now \in Clock : Parse(now)

SchemaSpec == SchemaInit /\ [][SchemaNext]_vars

(***************************************************************************)
(* Properties.                                                             *)
(***************************************************************************)
EventOps ==
    {"text_delta", "tool_started", "tool_completed", "input_requested",
     "execution_completed", "execution_failed"}

\* The last step was a non-empty submission handled up to its await or return.
NonEmptySubmit == last.op = "submit" /\ last.input # ""

HasCall(fn) == \E i \in 1..Len(calls) : calls[i].fn = fn

HasLine(kind) == \E i \in 1..Len(out) : out[i].kind = kind

\* C1: a non-empty submit in mode executing changes no session field, calls
\* neither trigger nor inject_input, and writes only the busy notice.
C1_DoubleSubmitGuard ==
    (NonEmptySubmit /\ ModeOf(last.pre) = "executing") =>
        /\ Mode = "executing"
        /\ current_exec_id = last.pre.exec
        /\ input_node_id = last.pre.node
        /\ streaming_snapshot = last.pre.snapshot
        /\ pc = "idle"
        /\ calls = <<>>
        /\ out = <<Line("busy", <<>>)>>

C1_Witness ==
    /\ NonEmptySubmit
    /\ ModeOf(last.pre) = "executing"
    /\ last.pre.snapshot # ""
    /\ out = <<Line("busy", <<>>)>>

\* C2: a non-empty submit while awaiting input with a stored target calls
\* inject_input with that target and the submitted text, calls nothing else,
\* and puts the session in mode executing; its return after the delivery
\* changes no session field.
C2_AwaitingSubmitInjects ==
    /\ (NonEmptySubmit /\ last.pre.waiting /\ Truthy(last.pre.node)) =>
          /\ calls = <<Call("inject_input", last.pre.node, "", last.input)>>
          /\ Mode = "executing"
    /\ (last.op = "submit_return" /\ last.pre.pc = "await_inject"
        /\ last.input = "done") =>
          /\ calls = <<>>
          /\ current_exec_id = last.pre.exec
          /\ waiting_for_input = last.pre.waiting
          /\ input_node_id = last.pre.node
          /\ streaming_snapshot = last.pre.snapshot

C2_Witness ==
    /\ NonEmptySubmit
    /\ last.pre.waiting
    /\ last.pre.node = "n2"
    /\ HasCall("inject_input")
    /\ Mode = "executing"

\* C3: a non-empty submit in mode idle, with an entry point available, calls
\* trigger once on the first entry point with {inputKey: userText}, stores
\* the execution id trigger returns, and ends in mode executing.
C3_IdleSubmitTriggers ==
    /\ (NonEmptySubmit /\ ModeOf(last.pre) = "idle"
        /\ rt_config.entry_points # <<>>) =>
          calls = <<Call("trigger", rt_config.entry_points[1].id,
                         IF rt_config.node.present /\ rt_config.node.input_keys # <<>>
                         THEN rt_config.node.input_keys[1] ELSE "input",
                         last.input)>>
    /\ (last.op = "submit_return" /\ last.pre.pc = "await_trigger"
        /\ last.input = "done") =>
          /\ current_exec_id = last.pre.future.result
          /\ Mode = "executing"

\* C4: handling input-requested(nodeId) ends in mode awaiting_structured_input
\* with the route target the event carried: nodeId, or none when it is empty.
C4_InputRequestedSetsTarget ==
    (last.op = "input_requested") =>
        /\ Mode = "awaiting_structured_input"
        /\ last.node # "" => input_node_id = last.node
        /\ last.node = "" => input_node_id = None

C4_Witness ==
    /\ last.op = "input_requested"
    /\ last.pre.waiting
    /\ Truthy(last.pre.node)
    /\ last.node # ""
    /\ last.node # last.pre.node
    /\ input_node_id = last.node

C6_FormRenderAwaitsInput ==
    (last.op = "execution_completed" /\ HasLine("form_title")) =>
        /\ Mode = "awaiting_structured_input"
        /\ input_node_id = ArtifactFormNode

\* C7: the non-empty submission that follows the rendering of a form at
\* execution-completed is delivered by inject_input to the artifact-form
\* target, and starts no execution.
C7_FormResponseRouted ==
    [][(last.op = "execution_completed" /\ HasLine("form_title")
        /\ last'.op = "submit" /\ last'.input # "") =>
          calls' = <<Call("inject_input", ArtifactFormNode, "", last'.input)>>]_vars

\* C8: trigger is called only in mode idle with no execution in flight, and
\* at most one execution is in flight at any time.
C8_TriggerOnlyWhenIdle ==
    /\ HasCall("trigger") =>
          /\ ModeOf(last.pre) = "idle"
          /\ last.pre.running = {}
    /\ Cardinality(rt_running) <= 1

C8_Witness ==
    /\ HasCall("trigger")
    /\ rt_count = 1
    /\ last.pre.artifact # NoArtifact

\* C9: no event handler runs between the start and the end of a submit.
C9_SubmitExcludesEvents == (last.op \in EventOps) => last.pre.pc = "idle"

\* C10: when trigger or inject_input raises, a failure notice is written,
\* the input box is enabled again, and the session is in mode idle with no
\* stored execution id.
C10_RuntimeCallFailureResets ==
    (last.op = "submit_return" /\ last.input = "raised") =>
        /\ HasLine("error") \/ HasLine("error_delivering_input")
        /\ ~input_disabled
        /\ Mode = "idle"
        /\ current_exec_id = None

\* No submit is suspended and the runtime has no execution in flight: only a
\* submission can be the next step.
Quiescent == pc = "idle" /\ rt_running = {}

\* C11: the session never gets stuck.  Once no submit is suspended and no
\* execution is in flight, no event can arrive any more, so the session must
\* already be where it is to stay: the input box enabled and every non-empty
\* submit routed to trigger as a new request.
C11_NeverStuck ==
    Quiescent =>
        /\ ~input_disabled
        /\ \A raw \in UserInputs :
              Strip(raw) # "" => Route(Strip(raw)) = "trigger"

\* C12: a non-empty submit while awaiting input with no stored target writes
\* a notice, makes no runtime call with an absent target, and ends in mode idle.
C12_RoutingErrorFallsBack ==
    (NonEmptySubmit /\ last.pre.waiting /\ ~Truthy(last.pre.node)) =>
        /\ out # <<>>
        /\ \A i \in 1..Len(calls) : Truthy(calls[i].target)
        /\ Mode = "idle"

\* C13: input-requested with an empty node id stores a target that is not
\* absent, and a non-empty submit while awaiting input is always delivered
\* by inject_input.
C13_EmptyTargetSentinel ==
    /\ (last.op = "input_requested" /\ last.node = "") => Truthy(input_node_id)
    /\ (NonEmptySubmit /\ last.pre.waiting) =>
          /\ HasCall("inject_input")
          /\ ~HasCall("trigger")
          /\ ~HasLine("busy")

\* The steps that are neither an input request, nor a submission, nor the end
\* of an execution.
PassiveOps ==
    {"rt_trigger", "rt_inject", "submit_return", "text_delta", "tool_started",
     "tool_completed"}

\* C14: last write wins.  Every input-requested(n) replaces the stored target
\* by n, no step other than a request, a submission or the end of an
\* execution touches the target, and a submission that calls inject_input
\* calls it once, with the target stored at that moment: a target replaced by
\* a later request receives nothing.
C14_LastWriteWins ==
    [][/\ (last'.op = "input_requested" /\ last'.node # "") =>
              input_node_id' = last'.node
       /\ (last'.op \in PassiveOps) => input_node_id' = input_node_id
       /\ (last'.op = "submit" /\ calls' # <<>> /\ calls'[1].fn = "inject_input") =>
              /\ waiting_for_input
              /\ calls' = <<Call("inject_input", input_node_id, "", last'.input)>>
              /\ input_node_id' = None]_vars

C14_Witness ==
    /\ last.op = "input_requested"
    /\ last.pre.waiting
    /\ last.pre.node = "n1"
    /\ last.node = "n2"
    /\ input_node_id = "n2"
    /\ pc = "idle"

\* The session fields are those of a ChatRepl just constructed.
SessionUntouched ==
    /\ current_exec_id = None
    /\ streaming_snapshot = ""
    /\ ~waiting_for_input
    /\ input_node_id = None
    /\ active_artifact = NoArtifact

\* C15: two calls of the extractor on the same text give equal results, the
\* parsed artifact with its timestamp included, and change no session field.
C15_ExtractionDeterministic ==
    (probe.op = "extract") =>
        /\ \A i, j \in 1..Len(probe.results) :
              probe.results[i].outcome = probe.results[j].outcome
        /\ SessionUntouched

\* The text has the word artifact in it, in some letter case.
MentionsArtifact(t) ==
    \E i \in 1..Len(t) : t[i] \in {"artifact", "Artifact", "ARTIFACT", "artifacts"}

\* C16: a text that is empty or has no "artifact" in it, in any letter case,
\* yields no artifact, whatever braces or JSON it contains.
C16_PreFilter ==
    (probe.op = "extract" /\ ~MentionsArtifact(ProbeText)) =>
        \A i \in 1..Len(probe.results) :
            probe.results[i].outcome = Returns(NoArtifact)

C16_Witness ==
    /\ probe.op = "extract"
    /\ probe.base = "escaped"
    /\ probe.len = Len(EscapedText)
    /\ ModelValidate(JsonLoads(EscapedJson).v, "T1").ok
    /\ Len(probe.results) = 2
    /\ probe.results[2].outcome = Returns(NoArtifact)

\* The texts that are a lead, a valid artifact JSON j and a tail.
EmbeddedJson(base) ==
    CASE base = "form" -> FormJson
      [] base = "markdown" -> MarkdownJson
      [] base = "brace" -> BraceJson

\* The position of the closing brace of j in the text.
CloseIdx(base) == Find(TextOf(base), EmbeddedJson(base)) + Len(EmbeddedJson(base)) - 1

\* C17: over the prefixes of lead + j + tail, j a valid artifact JSON, a
\* prefix that ends inside j yields no artifact, and a prefix that ends at or
\* after the closing brace of j yields the artifact the whole text yields.
C17_IncrementalConvergence ==
    (probe.op = "extract" /\ probe.base \in {"form", "markdown", "brace"}) =>
        \A i \in 1..Len(probe.results) :
            /\ (probe.len >= Find(TextOf(probe.base), EmbeddedJson(probe.base))
                /\ probe.len < CloseIdx(probe.base)) =>
                  probe.results[i].outcome = Returns(NoArtifact)
            /\ (probe.len >= CloseIdx(probe.base)) =>
                  /\ probe.results[i].outcome.raised = ""
                  /\ IsArtifact(probe.results[i].outcome.v)
                  /\ probe.results[i].outcome.v =
                        TryParseArtifact(TextOf(probe.base), probe.results[i].now)

\* The text the last execution-completed looked for an artifact in.
LastCompletedText ==
    IF last.pre.snapshot # "" THEN last.pre.snapshot
    ELSE IF last.input = "output_string" THEN last.text[1]
    ELSE ""

\* Texts whose candidate never closes, is not JSON, or fails the schema.
FailingTexts == {"truncated", "badjson", "invalid"}

\* C18: when the text's candidate is unbalanced, is not JSON or fails the
\* schema, handling execution-completed lets no exception escape, renders no
\* artifact, writes the raw text as the final output line, and ends in idle.
C18_ExtractionFailuresContained ==
    (last.op = "execution_completed" /\ LastCompletedText \in FailingTexts) =>
        /\ last.raised = ""
        /\ out = <<Line("agent", <<LastCompletedText>>), Line("separator", <<>>)>>
        /\ active_artifact = last.pre.artifact
        /\ Mode = "idle"

C18_Witness ==
    /\ last.op = "execution_completed"
    /\ last.pre.snapshot = "invalid"
    /\ TryBlock(InvalidText, "T1").raised = "ValidationError"
    /\ TryBlock(BadJsonText, "T1").raised = "JSONDecodeError"
    /\ JsonStr(TruncatedText) = <<>>
    /\ out[1] = Line("agent", <<"invalid">>)
    /\ ~input_disabled

\* The component model the props of an artifact belong to.
Variant(a) ==
    LET p == Get(a, K("props"))
    IN  IF HasKey(p, K("fields")) THEN "FormComponent"
        ELSE IF HasKey(p, K("content")) THEN "MarkdownComponent"
        ELSE IF HasKey(p, K("chart_type")) THEN "ChartComponent"
        ELSE "CodeSandboxComponent"

\* The serialization of an Artifact has been parsed.
RoundTripped == probe.op = "schema" /\ probe.stage = "parsed"

\* C19, as stated: parsing the serialization of any valid Artifact gives a
\* value equal to it, with props of the same variant.
C19_RoundTripAny ==
    RoundTripped =>
        /\ probe.parsed = ValidOk(probe.built.v)
        /\ Variant(probe.parsed.v) = Variant(probe.built.v)

\* The value is made of what JSON has a form for: no tuple anywhere in it.
RECURSIVE JsonNative(_)
JsonNative(v) ==
    /\ v.k # "tuple"
    /\ \A i \in 1..Len(v.items) : JsonNative(v.items[i])

\* C19, amended: parsing the serialization of a valid Artifact whose metadata
\* and chart data hold JSON values only (strings, numbers, booleans, null,
\* lists, dicts) gives a value equal to it, with props of the same variant.
C19_RoundTripJsonValues ==
    (RoundTripped /\ JsonNative(probe.built.v)) =>
        /\ probe.parsed = ValidOk(probe.built.v)
        /\ Variant(probe.parsed.v) = Variant(probe.built.v)

C19_Witness ==
    /\ RoundTripped
    /\ probe.how = "Artifact"
    /\ JsonNative(probe.built.v)
    /\ Variant(probe.built.v) = "MarkdownComponent"
    /\ Get(Get(probe.built.v, K("props")), K("content")).s = <<"say", WS, Q, "hi", Q>>
    /\ Get(probe.built.v, K("component")) = S("chart")
    /\ HasKey(Get(probe.built.v, K("metadata")), K("source"))
    /\ ~HasKey(probe.input, K("timestamp"))
    /\ probe.parsed.ok

\* The fields of the form the probe was given, <<>> when it was given none.
GivenFields == Get(Get(probe.input, K("props")), K("fields")).items

\* C20: building form props with an empty field list fails, and every form
\* that was built, by FormComponent, by Artifact, by create_form or by
\* parsing, has at least one field.
C20_FormHasFields ==
    (probe.op = "schema" /\ probe.stage # "input") =>
        /\ (HasKey(Get(probe.input, K("props")), K("title")) /\ GivenFields = <<>>) =>
              ~probe.built.ok
        /\ (probe.built.ok /\ probe.how = "FormComponent") =>
              Len(Get(probe.built.v, K("fields")).items) >= 1
        /\ (probe.built.ok /\ probe.how # "FormComponent"
            /\ Variant(probe.built.v) = "FormComponent") =>
              Len(Get(Get(probe.built.v, K("props")), K("fields")).items) >= 1
        /\ (probe.parsed.ok /\ Variant(probe.parsed.v) = "FormComponent") =>
              Len(Get(Get(probe.parsed.v, K("props")), K("fields")).items) >= 1

C20_Witness ==
    /\ probe.op = "schema"
    /\ probe.how = "create_form"
    /\ probe.stage = "built"
    /\ HasKey(Get(probe.input, K("props")), K("title"))
    /\ GivenFields = <<>>
    /\ ~probe.built.ok

\* C24: a text-delta stores the cumulative snapshot it carries in place of
\* what was accumulated, no tool event touches it, and execution-completed
\* with accumulated text in which no artifact is found writes exactly that
\* text as the final output line, not the output payload, and ends in idle.
C24_FinalTextIsSnapshot ==
    [][/\ (last'.op = "text_delta") => streaming_snapshot' = last'.text[1]
       /\ (last'.op \in {"tool_started", "tool_completed"}) =>
              streaming_snapshot' = streaming_snapshot
       /\ (last'.op = "execution_completed" /\ streaming_snapshot # ""
           /\ ~IsArtifact(Parsed[streaming_snapshot, "T1"].v)) =>
              /\ out' = <<Line("agent", <<streaming_snapshot>>), Line("separator", <<>>)>>
              /\ ~waiting_for_input' /\ current_exec_id' = None]_vars

C24_Witness ==
    /\ last.op = "execution_completed"
    /\ last.pre.snapshot = "mention"
    /\ last.input = "output_string"
    /\ last.text = <<"form">>
    /\ out = <<Line("agent", <<"mention">>), Line("separator", <<>>)>>
    /\ Mode = "idle"

\* The lines that render an artifact.
RenderKinds ==
    {"artifact", "form_title", "form_description", "form_field", "form_prompt",
     "markdown", "unsupported"}

\* C25: an artifact is rendered, and active_artifact changes, only in the
\* step that handles execution-completed; no other handler does either,
\* whatever text has been accumulated.
C25_RenderOnlyAtCompletion ==
    [][((\E i \in 1..Len(out') : out'[i].kind \in RenderKinds)
        \/ active_artifact' # active_artifact) =>
          last'.op = "execution_completed"]_vars

C25_Witness ==
    /\ last.op = "text_delta"
    /\ streaming_snapshot = "form"
    /\ IsArtifact(Parsed["form", "T1"].v)
    /\ out = <<>>
    /\ active_artifact = NoArtifact

\* C26: tool-started and tool-completed leave the mode, the stored execution
\* id, the route target, the accumulated text, the active artifact and the
\* input box as they were.
C26_ToolEventsFrame ==
    (last.op \in {"tool_started", "tool_completed"}) =>
        /\ Mode = ModeOf(last.pre)
        /\ current_exec_id = last.pre.exec
        /\ waiting_for_input = last.pre.waiting
        /\ input_node_id = last.pre.node
        /\ streaming_snapshot = last.pre.snapshot
        /\ active_artifact = last.pre.artifact
        /\ input_disabled = last.pre.disabled

C26_Witness ==
    /\ last.op = "tool_started"
    /\ last.pre.pc = "await_trigger"
    /\ streaming_snapshot = "form"
    /\ waiting_for_input
    /\ input_node_id = "n1"
    /\ active_artifact # NoArtifact

C28_SubmitReturnsPromptly ==
    /\ (pc # "idle" /\ future.st = "pending") => ENABLED (RtTrigger \/ RtInject)
    /\ (pc # "idle" /\ future.st # "pending") => ENABLED SubmitReturn
    /\ (last.op = "submit_return") => pc = "idle"

C28_Witness ==
    /\ last.op = "submit_return"
    /\ last.pre.pc = "await_trigger"
    /\ last.input = "done"
    /\ rt_running = {current_exec_id}
    /\ pc = "idle"

\* C29: outside mode awaiting_structured_input no route target is stored.
C29_TargetOnlyWhenAwaiting ==
    (Mode # "awaiting_structured_input") => input_node_id = None

C29_Witness ==
    /\ last.op = "execution_failed"
    /\ last.pre.waiting
    /\ last.pre.node = "n1"
    /\ Mode = "idle"
    /\ input_node_id = None

Built == probe.op = "schema" /\ probe.stage # "input"

\* The fields of the form that was built, <<>> when no form was.
BuiltFields ==
    IF ~probe.built.ok THEN <<>>
    ELSE IF probe.how = "FormComponent" THEN Get(probe.built.v, K("fields")).items
    ELSE Get(Get(probe.built.v, K("props")), K("fields")).items

IsSelect(f) == Get(f, K("type")) = S("select")

NoOptions(f) == Get(f, K("options")).items = <<>>

\* C21: building a form with a select field that has no options fails, and
\* every select field of a form that was built has at least one option.
C21_SelectHasOptions ==
    Built =>
        /\ (\E i \in 1..Len(GivenFields) :
               IsSelect(GivenFields[i]) /\ NoOptions(GivenFields[i])) => ~probe.built.ok
        /\ \A i \in 1..Len(BuiltFields) :
               IsSelect(BuiltFields[i]) => ~NoOptions(BuiltFields[i])

\* The component model that the component field selects.
Selected(a) ==
    CASE Get(a, K("component")) = S("form") -> "FormComponent"
      [] Get(a, K("component")) = S("markdown") -> "MarkdownComponent"
      [] Get(a, K("component")) = S("chart") -> "ChartComponent"
      [] OTHER -> "CodeSandboxComponent"

\* C22: every Artifact that was built or parsed has props of the component
\* model its component field selects.
C22_PropsMatchComponent ==
    /\ (Built /\ probe.built.ok /\ probe.how # "FormComponent") =>
          Variant(probe.built.v) = Selected(probe.built.v)
    /\ (Built /\ probe.parsed.ok) =>
          Variant(probe.parsed.v) = Selected(probe.parsed.v)

\* The input carries the undeclared key on the model, on its props or on a
\* field of its props.
CarriesUnknownKey ==
    \/ HasKey(probe.input, UnknownKey)
    \/ HasKey(Get(probe.input, K("props")), UnknownKey)
    \/ \E i \in 1..Len(GivenFields) : HasKey(GivenFields[i], UnknownKey)

\* C23: input that carries a key no model declares, on the Artifact, on its
\* form props, on a form field, on its markdown props or on an
\* ArtifactResponse, is rejected: no model is built from it.
C23_UnknownKeyRejected ==
    (probe.op \in {"schema", "response"} /\ probe.stage # "input"
     /\ IF probe.how = "FormComponent"
        THEN \/ HasKey(Get(probe.input, K("props")), UnknownKey)
             \/ \E i \in 1..Len(GivenFields) : HasKey(GivenFields[i], UnknownKey)
        ELSE CarriesUnknownKey) =>
        ~probe.built.ok

\* An ArtifactResponse that is valid but for the undeclared key was rejected.
C23_Witness ==
    /\ probe.op = "response"
    /\ probe.stage = "built"
    /\ HasKey(probe.input, UnknownKey)
    /\ HasKey(probe.input, K("data"))
    /\ ~probe.built.ok

\* C31: after execution-failed, and after an execution-completed that wrote
\* plain text, no active artifact is stored, whatever an earlier execution
\* rendered.
C31_ArtifactClearedAtEnd ==
    /\ (last.op = "execution_failed") => active_artifact = NoArtifact
    /\ (last.op = "execution_completed" /\ HasLine("agent")) =>
          active_artifact = NoArtifact

\* C32: after execution-completed rendered a form or a markdown artifact,
\* the active artifact is the artifact that was rendered.
C32_ActiveIsLastRendered ==
    (last.op = "execution_completed"
     /\ (HasLine("form_title") \/ HasLine("markdown"))) =>
        \E now \in Clock : active_artifact = Parsed[LastCompletedText, now].v

\* C33: execution-completed extracts from and displays the accumulated text
\* when there is some, and when the text streamed by the execution was
\* flushed by the input-requested just before, it neither displays the
\* output payload nor renders an artifact found in it.
C33_PayloadOnlyWithoutStreaming ==
    [][/\ (last'.op = "execution_completed" /\ streaming_snapshot # "") =>
             \E now \in Clock :
                out' = (IF IsArtifact(Parsed[streaming_snapshot, now].v)
                        THEN RenderLines(Parsed[streaming_snapshot, now].v)
                        ELSE <<Line("agent", <<streaming_snapshot>>)>>)
                       \o <<Line("separator", <<>>)>>
       /\ (last.op = "input_requested" /\ last.pre.snapshot # ""
           /\ last'.op = "execution_completed") =>
             \A i \in 1..Len(out') : out'[i].kind \notin RenderKinds \cup {"agent"}]_vars

\* The positions where an object opens with the key "type".
Openings(t) ==
    {i \in 1..(Len(t) - 4) :
        /\ t[i] = "{" /\ t[i + 1] = Q /\ t[i + 2] = "type"
        /\ t[i + 3] = Q /\ t[i + 4] = ":"}

\* How many times the symbol occurs in the text.
RECURSIVE Count(_, _)
Count(t, sym) ==
    IF t = <<>> THEN 0
    ELSE (IF Head(t) = sym THEN 1 ELSE 0) + Count(Tail(t), sym)

\* The span is what the artifact was read from: it starts at the first
\* opening, its braces balance, it is JSON whose type is "artifact", and the
\* artifact is what validating it at that time gives.
SourceSpan(t, span, a, now) ==
    /\ Openings(t) # {}
    /\ \A i \in Openings(t) : Find(t, span) <= i
    /\ Find(t, span) \in Openings(t)
    /\ Count(span, "{") = Count(span, "}")
    /\ JsonLoads(span).ok
    /\ Get(JsonLoads(span).v, K("type")) = S("artifact")
    /\ ModelValidate(JsonLoads(span).v, now) = ValidOk(a)

ClosedCandidate(t) ==
    \E a \in (Openings(t) \cup {Find(t, <<"{", SQ, "type", SQ, ":">>)}) \ {0} :
        \E b \in a..Len(t) :
            Count(SubSeq(t, a, b), "{") = Count(SubSeq(t, a, b), "}")

\* C35: a closed candidate from which no artifact is read, because it is not
\* JSON or fails validation, is reported with a result other than the one a
\* text with no candidate is reported with.
C35_MalformedDistinct ==
    (probe.op = "extract" /\ ClosedCandidate(ProbeText)) =>
        \A i \in 1..Len(probe.results) :
            ~IsArtifact(probe.results[i].outcome.v) =>
                probe.results[i].outcome # TryParseOutcome(MentionText, probe.results[i].now)

\* C39: for the text of an object that opens with a type key and is no
\* artifact, followed by a complete valid artifact object, the extractor
\* returns that artifact.
C39_FoundAfterOtherObject ==
    (probe.op = "extract" /\ probe.base = "shadowed"
     /\ probe.len = Len(ShadowedText)) =>
        \A i \in 1..Len(probe.results) :
            ValidOk(probe.results[i].outcome.v) =
                ModelValidate(JsonLoads(MarkdownJson).v, probe.results[i].now)

\* The title of the form that was built, JNull when no form was.
BuiltTitle ==
    IF ~probe.built.ok THEN JNull
    ELSE IF probe.how = "FormComponent" THEN Get(probe.built.v, K("title"))
    ELSE Get(Get(probe.built.v, K("props")), K("title"))

\* C36: building form props whose title is the empty string fails, and the
\* title of every form that was built is not empty.
C36_FormTitleNonEmpty ==
    Built =>
        /\ (Get(Get(probe.input, K("props")), K("title")) = JStr(<<>>)) => ~probe.built.ok
        /\ BuiltTitle # JStr(<<>>)

\* C37: a stored execution id is the id of an execution still in flight,
\* never of one whose completion or failure has been handled.
C37_StoredExecInFlight ==
    (current_exec_id # None) => current_exec_id \in rt_running

\* A submission would be delivered by inject_input: line 139.
Routable == waiting_for_input /\ Truthy(input_node_id)

\* C38: a submit calls inject_input only for a stored input request, and it
\* uses the request up; the session holds a request again only once
\* input-requested is handled or a form is rendered.  So no later submit
\* calls inject_input before one of the two has happened.
C38_RequestConsumedOnce ==
    [][/\ (last'.op = "submit" /\ calls' # <<>> /\ calls'[1].fn = "inject_input") =>
             /\ Routable
             /\ calls' = <<Call("inject_input", input_node_id, "", last'.input)>>
             /\ ~waiting_for_input'
             /\ input_node_id' = None
       /\ (~Routable /\ waiting_for_input' /\ Truthy(input_node_id')) =>
             \/ last'.op = "input_requested"
             \/ last'.op = "execution_completed"
                /\ \E i \in 1..Len(out') : out'[i].kind = "form_title"]_vars

C38_Witness ==
    /\ last.op = "submit"
    /\ last.pre.waiting
    /\ last.pre.node = "n2"
    /\ calls = <<Call("inject_input", "n2", "", "yes")>>
    /\ ~Routable

\* The mode, the stored execution id, the route target and the input box are
\* as they were before the last step, and the step called nothing.
SubmitChangedNothing ==
    /\ calls = <<>>
    /\ Mode = ModeOf(last.pre)
    /\ current_exec_id = last.pre.exec
    /\ waiting_for_input = last.pre.waiting
    /\ input_node_id = last.pre.node
    /\ input_disabled = last.pre.disabled

\* C40: an empty or blank submission, in any mode, and a submission in mode
\* idle when the runtime has no entry point, call neither trigger nor
\* inject_input and leave the mode, the stored execution id, the route target
\* and the input box as they were; the blank one writes nothing.
C40_NoOpSubmits ==
    /\ (last.op = "submit" /\ last.input = "") =>
          SubmitChangedNothing /\ out = <<>>
    /\ (NonEmptySubmit /\ ModeOf(last.pre) = "idle"
        /\ rt_config.entry_points = <<>>) =>
          SubmitChangedNothing

C40_Witness ==
    /\ last.op = "submit"
    /\ last.input = ""
    /\ ModeOf(last.pre) = "executing"
    /\ last.pre.disabled
    /\ input_disabled
    /\ out = <<>>

====
